---- MODULE Spec2Model ----
(***************************************************************************)
(* State machine of wopr-plugin-obsidian: the plugin lifecycle of          *)
(* src/src/index.ts (init / shutdown, connectivity poller, context         *)
(* provider, memory:search and session:destroy handlers) over the vault    *)
(* client of src/src/obsidian-client.ts.                                   *)
(*                                                                         *)
(* JavaScript runs the plugin on one thread: a handler runs without        *)
(* interruption from one await to the next.  Each action below is one such *)
(* uninterrupted stretch of code.                                          *)
(***************************************************************************)
EXTENDS Integers, Sequences, FiniteSets, TLC

\* ------------------------------------------------------------------ bounds
MaxInits == 2        \* init() calls in one run
MaxShutdowns == 2    \* consecutive shutdown() calls after an init()
MaxPings == 2        \* pings in flight at one time
MaxResults == 4      \* length of a search response

\* ---------------------------------------------------------- JS null values
NULL == 0            \* the null of `ctx`, `client` and `healthTimer`
HOST == 1            \* the WOPRPluginContext the host passes to init()

Ids == 1..MaxInits   \* the n-th init() builds client n and interval timer n

\* ----------------------------------------------------------------- state
VARIABLES
    ctx,            \* module-level `ctx`: NULL or HOST
    client,         \* module-level `client`: NULL or the id of an ObsidianClient
    healthTimer,    \* module-level `healthTimer`: NULL or the id of an interval
    cleanups,       \* module-level `cleanups`: sequence of unsubscribe handles
    connected,      \* ObsidianClient.connected, one flag per client object
    lastConnected,  \* the closure variable `lastConnected` of each init()
    nInit,          \* number of init() calls so far
    nShutdown,      \* number of shutdown() calls since the last init()
    activeTimers,   \* host: intervals scheduled by setInterval and not cleared
    subs,           \* host: event-bus subscriptions still registered
    reg,            \* host: what is registered under the plugin's names
    unsubLog,       \* every unsubscribe handle invoked so far, in call order
    shutdownTrace,  \* the steps the most recent shutdown() executed, in order
    shutdownThrew,  \* whether the most recent shutdown() rejected
    pings,          \* ping() calls in flight, one slot each
    gc,             \* the getContext() call of the context provider, if any
    ms,             \* the memory:search handler call, if any
    sd,             \* the session:destroy handler call, if any
    cc,             \* the tool or extension call in progress, if any
    config,         \* host: the plugin's stored configuration (ctx.getConfig())
    initConfig,     \* the `config` constant each init() read, per client built
    pollLog         \* host log: what each poller's latest state-change event said

lifeVars == <<ctx, client, healthTimer, cleanups, nInit, nShutdown>>
hostVars == <<activeTimers, subs, reg, unsubLog, shutdownTrace, shutdownThrew>>
pingVars == <<connected, lastConnected, pings>>
taskVars == <<gc, ms, sd>>
callVars == <<cc, config, initConfig>>
vars == <<lifeVars, hostVars, pingVars, taskVars, callVars, pollLog>>

\* ------------------------------------------------------------- shutdown()
Step(op, id, event, threw) == [op |-> op, id |-> id, event |-> event, threw |-> threw]

Handle(id, event) == [id |-> id, event |-> event]

\* init() pushes memUnsub, then sessionUnsub
PushedByInit(id) == <<Handle(id, "memory:search"), Handle(id, "session:destroy")>>

UnregOrder == <<"unregisterConfigSchema", "unregisterContextProvider", "unregisterExtension">>

\* if (healthTimer) { clearInterval(healthTimer); healthTimer = null; }
TimerSteps(ht) == IF ht # NULL THEN <<Step("clearInterval", ht, "-", FALSE)>> ELSE <<>>

\* a loop without the try/catch: the first cleanup that throws ends it
CleanupsInvokedNoCatch(cs, failC) ==
    IF \E i \in 1..Len(cs) : i \in failC
    THEN SubSeq(cs, 1, CHOOSE i \in 1..Len(cs) :
                          i \in failC /\ \A j \in 1..(i - 1) : j \notin failC)
    ELSE cs

\* for (const cleanup of cleanups) { try { cleanup(); } catch { /* ignore */ } }
\* failC: the positions whose cleanup() throws.  Every cleanup is invoked.
CleanupsInvoked(cs, failC) == cs

CleanupSteps(cs, failC) ==
    LET inv == CleanupsInvoked(cs, failC)
    IN  [i \in 1..Len(inv) |-> Step("cleanup", inv[i].id, inv[i].event, i \in failC)]

\* a shutdown() that forgets to empty the registry
CleanupsKept(cs) == cs

\* cleanups.length = 0;
CleanupsAfterShutdown(cs) == <<>>

\* ctx?.unregisterConfigSchema(..); ctx?.unregisterContextProvider(..);
\* ctx?.unregisterExtension(..);  -- no try/catch: the first one that throws
\* ends shutdown().  The number of unregistrations that get called:
UnregAttempted(c, failU) ==
    IF c = NULL THEN 0
    ELSE IF \E i \in 1..Len(UnregOrder) : UnregOrder[i] \in failU
         THEN CHOOSE i \in 1..Len(UnregOrder) :
                /\ UnregOrder[i] \in failU
                /\ \A j \in 1..(i - 1) : UnregOrder[j] \notin failU
         ELSE Len(UnregOrder)

UnregSteps(c, failU) ==
    [i \in 1..UnregAttempted(c, failU) |-> Step(UnregOrder[i], NULL, "-", UnregOrder[i] \in failU)]

ShutdownThrows(c, failU) ==
    c # NULL /\ \E i \in 1..Len(UnregOrder) : UnregOrder[i] \in failU

\* client = null; ctx = null;  -- reached only when nothing above threw
ReleaseSteps(c, failU) ==
    IF ShutdownThrows(c, failU) THEN <<>>
    ELSE <<Step("client=null", NULL, "-", FALSE), Step("ctx=null", NULL, "-", FALSE)>>

Range(s) == {s[i] : i \in 1..Len(s)}

\* host: a registration is removed by an unregistration that was called and
\* did not throw
Unregistered(i, c, failU) ==
    i <= UnregAttempted(c, failU) /\ UnregOrder[i] \notin failU

RegAfterShutdown(r, c, failU) ==
    [r EXCEPT !.schema    = r.schema    /\ ~Unregistered(1, c, failU),
              !.provider  = r.provider  /\ ~Unregistered(2, c, failU),
              !.extension = r.extension /\ ~Unregistered(3, c, failU)]

\* host: an unsubscribe handle that returns removes its subscription, one
\* that throws leaves it registered
SubsAfterCleanups(ss, cs, failC) ==
    ss \ {CleanupsInvoked(cs, failC)[i] :
            i \in {j \in 1..Len(CleanupsInvoked(cs, failC)) : j \notin failC}}

\* ------------------------------------------------------------- JS values
Min(a, b) == IF a <= b THEN a ELSE b
Max(a, b) == IF a >= b THEN a ELSE b

\* an optional value: <<>> is undefined, <<v>> is v
Undefined == <<>>
Some(v) == <<v>>

\* x ?? d
OrElse(x, d) == IF x = Undefined THEN d ELSE x[1]

\* Array.prototype.slice(0, end) for an integer end: a negative end counts
\* from the end of the array
SliceEnd(n, end) == IF end < 0 THEN Max(n + end, 0) ELSE Min(end, n)

JsSlice(arr, end) == SubSeq(arr, 1, SliceEnd(Len(arr), end))

\* String.prototype.trim() on a sequence of characters
IsSpace(ch) == ch = " "

RECURSIVE TrimStart(_)
TrimStart(str) ==
    IF str # <<>> /\ IsSpace(Head(str)) THEN TrimStart(Tail(str)) ELSE str

RECURSIVE TrimEnd(_)
TrimEnd(str) ==
    IF str # <<>> /\ IsSpace(str[Len(str)])
    THEN TrimEnd(SubSeq(str, 1, Len(str) - 1)) ELSE str

Trim(str) == TrimEnd(TrimStart(str))

\* ------------------------------------------------------ context provider
\* index.ts line 323: cfg.maxContextNotes ?? 3
DefaultMaxContextNotes == 3

\* index.ts line 330: note.content.slice(0, 2000)
ContentCap == 2000

\* index.ts line 315: if (cfg.injectContext !== "always") return null;
ModeSkips(mode) == mode # "always"

\* a guard that forgets trim(): only the empty string is skipped
QuerySkipsNoTrim(content) == content = Undefined \/ content[1] = <<>>

\* index.ts line 319: if (!query?.trim()) return null;
\* content is Undefined or Some(sequence of characters)
QuerySkips(content) == content = Undefined \/ Trim(content[1]) = <<>>

\* index.ts line 323: results.slice(0, cfg.maxContextNotes ?? 3)
TopOf(results, maxNotes) == JsSlice(results, OrElse(maxNotes, DefaultMaxContextNotes))

\* index.ts lines 328-333: what one note contributes.  outcome is "fail"
\* (read() rejected, the response had no content, or there was no client to
\* call) or the length of the content read() returned.
Placeholder(file) == [file |-> file, kind |-> "placeholder", len |-> 0]

Section(file, outcome) ==
    IF outcome = Undefined THEN Placeholder(file)
    ELSE [file |-> file, kind |-> "content", len |-> Min(outcome[1], ContentCap)]

Pending(file) == [file |-> file, kind |-> "pending", len |-> 0]

\* index.ts line 343: ctx?.log.warn(..) logs only while ctx is set
WarnsLogged(c) == IF c # NULL THEN 1 ELSE 0

IdleGc ==
    [pc |-> "idle", mode |-> "-", conn |-> FALSE, content |-> Undefined,
     maxNotes |-> Undefined, results |-> <<>>, top |-> <<>>, notes |-> <<>>,
     reads |-> <<>>, ret |-> "-", warns |-> 0, nSearch |-> 0,
     searchFailed |-> FALSE, live |-> FALSE]

\* --------------------------------------------------- memory:search handler
\* obsidian-client.ts line 57: search(query, contextLength = 200)
DefaultContextLength == 200

\* index.ts line 353: getClient().search(payload.query, 150)
MemorySearchContextLength == 150

\* index.ts line 355: results.slice(0, 3)
MemorySearchLimit == 3

\* obsidian-client.ts lines 57-62: the request search() sends
SearchRequest(query, contextLength) ==
    [query |-> query, contextLength |-> OrElse(contextLength, DefaultContextLength)]

\* a handler that takes every result the server returned
MsSelectedAll(hits) == hits

\* index.ts line 355: for (const r of results.slice(0, 3))
MsSelected(hits) == JsSlice(hits, MemorySearchLimit)

\* index.ts lines 356-360: the entry pushed for result r; strings built from
\* parts are the sequence of their parts
\* r.matches[0]?.context ?? r.filename
FirstContext(r) == IF r.matches[1] = <<>> THEN r.filename ELSE r.matches[1][1]

Translated(r) ==
    [content |-> FirstContext(r), source |-> <<"obsidian:", r.filename>>, score |-> r.score]

\* index.ts lines 355-361: the loop pushes entry after entry; a result with
\* no `matches` array makes r.matches[0] throw, which ends the loop and
\* keeps what was pushed before (the catch of line 362 swallows it)
RECURSIVE PushAll(_, _)
PushAll(coll, hits) ==
    IF hits = <<>> THEN coll
    ELSE IF Head(hits).matches = Undefined THEN coll
    ELSE PushAll(Append(coll, Translated(Head(hits))), Tail(hits))

\* whether the loop of index.ts lines 355-361 meets a result it cannot read
Malformed(hits) == \E i \in 1..Len(hits) : hits[i].matches = Undefined

IdleMs ==
    [pc |-> "idle", conn |-> FALSE, before |-> Undefined, payload |-> Undefined,
     req |-> Undefined, hits |-> <<>>, ret |-> "-", nSearch |-> 0, logs |-> 0,
     failure |-> "none"]

\* a handler that does not look at the connection before it searches
MsStartUnguarded(cl, isConn, query, results) ==
    [IdleMs EXCEPT !.conn = cl # NULL /\ isConn,
                   !.before = results, !.payload = results,
                   !.pc = "search", !.nSearch = 1,
                   !.req = Some(SearchRequest(query, Some(MemorySearchContextLength)))]

\* index.ts lines 350-353, up to the await.  results: payload.results, an
\* optional array
MsStart(cl, isConn, query, results) ==
    LET m == [IdleMs EXCEPT !.conn = cl # NULL /\ isConn,
                            !.before = results, !.payload = results]
    IN  IF ~(cl # NULL /\ isConn)                     \* !client?.isConnected()
        THEN [m EXCEPT !.pc = "done", !.ret = "ok"]
        ELSE [m EXCEPT !.pc = "search", !.nSearch = 1,
                       !.req = Some(SearchRequest(query, Some(MemorySearchContextLength)))]

\* index.ts lines 354-361: search() resolved with hits
MsAfterSearch(m, hits) ==
    IF m.payload = Undefined                           \* if (!payload.results) return;
    THEN [m EXCEPT !.pc = "done", !.ret = "ok", !.hits = hits]
    ELSE [m EXCEPT !.pc = "done", !.ret = "ok", !.hits = hits,
                   !.payload = Some(PushAll(m.payload[1], MsSelected(hits))),
                   !.failure = IF Malformed(MsSelected(hits)) THEN "result" ELSE "none"]

\* a handler without the catch of line 362: the rejection reaches the bus
MsAfterSearchFailedRethrow(m) == [m EXCEPT !.pc = "done", !.ret = "threw", !.failure = "search"]

\* index.ts lines 362-364: search() rejected; nothing is logged
MsAfterSearchFailed(m) == [m EXCEPT !.pc = "done", !.ret = "ok", !.failure = "search"]

\* -------------------------------------------------- session:destroy handler
\* a JS value of the configuration: its type and its String() form
JsVal(t, v) == [t |-> t, v |-> v]

JsString(x) == x.v

\* a check that accepts the boolean only
ArchiveOffUnlessBoolean(x) == ~(x.t = "boolean" /\ x.v = "true")

\* index.ts line 372:
\* if (cfg.sessionArchive !== true && String(cfg.sessionArchive) !== "true") return;
ArchiveOff(x) == ~(x.t = "boolean" /\ x.v = "true") /\ JsString(x) # "true"

\* Date.prototype.toISOString(): YYYY-MM-DDTHH:mm:ss.sssZ, as its parts
ToISOString(now) == <<now.y, "-", now.m, "-", now.d, "T", now.t, "Z">>

\* .slice(0, 10): the first ten characters are the parts YYYY - MM - DD
IsoDate(iso) == SubSeq(iso, 1, 5)

\* index.ts line 377: `${cfg.vaultPath ?? "WOPR"}/sessions/${date}-${session}.md`
ArchivePath(vaultPath, now, session) ==
    <<OrElse(vaultPath, "WOPR"), "/sessions/">> \o IsoDate(ToISOString(now))
        \o <<"-", session, ".md">>

\* index.ts line 382: ctx?.log.info(..) logs only while ctx is set
InfosLogged(c) == IF c # NULL THEN 1 ELSE 0

IdleSd ==
    [pc |-> "idle", archive |-> JsVal("undefined", "undefined"), conn |-> FALSE,
     vaultPath |-> Undefined, session |-> "-", now |-> [y |-> "-", m |-> "-", d |-> "-", t |-> "-"],
     writes |-> <<>>, ret |-> "-", warns |-> 0, infos |-> 0,
     writeFailed |-> FALSE, live |-> FALSE]

\* index.ts lines 369-381, up to the await
SdStart(c, cl, isConn, cfg, session, now) ==
    LET d == [IdleSd EXCEPT !.archive = cfg.sessionArchive,
                            !.conn = cl # NULL /\ isConn,
                            !.vaultPath = cfg.vaultPath,
                            !.session = session, !.now = now]
    IN  IF c = NULL
        THEN [d EXCEPT !.pc = "done", !.ret = "threw"]      \* getCtx() is null
        ELSE IF ArchiveOff(cfg.sessionArchive)
        THEN [d EXCEPT !.pc = "done", !.ret = "ok"]
        ELSE IF ~(cl # NULL /\ isConn)                      \* !client?.isConnected()
        THEN [d EXCEPT !.pc = "done", !.ret = "ok"]
        ELSE [d EXCEPT !.pc = "write",
                       !.writes = <<[path |-> ArchivePath(cfg.vaultPath, now, session)]>>]

\* index.ts line 382: write() resolved
SdAfterWrite(d, c) ==
    [d EXCEPT !.pc = "done", !.ret = "ok", !.infos = d.infos + InfosLogged(c)]

\* a handler whose catch rethrows
SdAfterWriteFailedRethrow(d, c) ==
    [d EXCEPT !.pc = "done", !.ret = "threw", !.writeFailed = TRUE, !.live = (c # NULL)]

\* index.ts lines 383-385: write() rejected
SdAfterWriteFailed(d, c) ==
    [d EXCEPT !.pc = "done", !.ret = "ok", !.writeFailed = TRUE,
              !.live = (c # NULL), !.warns = d.warns + WarnsLogged(c)]

\* ------------------------------------------------------- configuration
\* index.ts lines 25-80: the six fields of the configuration; the host
\* stores it and getConfig() returns the stored value
MakeConfig(apiKey, port, vaultPath, injectContext, maxContextNotes, sessionArchive) ==
    [apiKey |-> apiKey, port |-> port, vaultPath |-> vaultPath,
     injectContext |-> injectContext, maxContextNotes |-> maxContextNotes,
     sessionArchive |-> sessionArchive]

\* the configuration stored when the module is loaded: an API key and the
\* defaults the schema declares
StoredConfig ==
    MakeConfig(Some("key-1"), Undefined, Undefined, "always", Undefined,
               JsVal("boolean", "false"))

\* ------------------------------------------------- tool / extension call
\* no call of an A2A tool handler or of an extension method in progress
IdleCall ==
    [pc |-> "idle", via |-> "-", op |-> "-", args |-> Undefined,
     target |-> NULL, modClient |-> NULL,
     nReq |-> 0, req |-> Undefined, out |-> Undefined, res |-> Undefined,
     ret |-> Undefined]

\* no state-change event logged yet; n is the parity of the number of events,
\* startup the number of lines the startup check has logged
NoPollLog == [last |-> "none", n |-> 0, startup |-> 0]

\* ------------------------------------------------------------------- Init
\* the module after load: index.ts lines 14-18
Init ==
    /\ ctx = NULL
    /\ client = NULL
    /\ healthTimer = NULL
    /\ cleanups = <<>>
    /\ connected = [i \in Ids |-> FALSE]
    /\ lastConnected = [i \in Ids |-> "null"]
    /\ nInit = 0
    /\ nShutdown = 0
    /\ activeTimers = {}
    /\ subs = {}
    /\ reg = [schema |-> FALSE, provider |-> FALSE, extension |-> FALSE, a2a |-> NULL]
    /\ unsubLog = <<>>
    /\ shutdownTrace = <<>>
    /\ shutdownThrew = FALSE
    /\ pings = [s \in 1..MaxPings |-> [pc |-> "idle", client |-> NULL, origin |-> "-", timer |-> NULL]]
    /\ gc = IdleGc
    /\ ms = IdleMs
    /\ sd = IdleSd
    /\ cc = IdleCall
    /\ config = StoredConfig
    /\ initConfig = [i \in Ids |-> StoredConfig]
    /\ pollLog = [i \in Ids |-> NoPollLog]

\* ------------------------------------------------------------ ping slots
IdlePing == [pc |-> "idle", client |-> NULL, origin |-> "-", timer |-> NULL]

FreeSlots(ps) == {s \in DOMAIN ps : ps[s].pc = "idle"}

\* ps with a ping() on client c started in the lowest free slot
StartPing(ps, c, origin, timer) ==
    LET s == CHOOSE x \in FreeSlots(ps) : \A y \in FreeSlots(ps) : x <= y
    IN  [ps EXCEPT ![s] = [pc |-> "fetch", client |-> c, origin |-> origin, timer |-> timer]]

\* --------------------------------------------------------------- init()
\* index.ts lines 275-413.  hasA2A: whether the host offers registerA2AServer.
PluginInit(hasA2A) ==
    /\ nInit < MaxInits
    /\ FreeSlots(pings) # {}
    /\ LET id == nInit + 1 IN
        /\ nInit' = id
        /\ nShutdown' = 0
        /\ ctx' = HOST
        /\ client' = id
        /\ connected' = [connected EXCEPT ![id] = FALSE]
        /\ lastConnected' = [lastConnected EXCEPT ![id] = "null"]
        /\ healthTimer' = id
        /\ activeTimers' = activeTimers \cup {id}
        /\ pings' = StartPing(pings, id, "init", NULL)
        /\ subs' = subs \cup Range(PushedByInit(id))
        /\ cleanups' = cleanups \o PushedByInit(id)
        /\ reg' = [schema |-> TRUE, provider |-> TRUE, extension |-> TRUE,
                   a2a |-> IF hasA2A THEN id ELSE reg.a2a]
        /\ initConfig' = [initConfig EXCEPT ![id] = config]
    /\ UNCHANGED <<unsubLog, shutdownTrace, shutdownThrew, taskVars, cc, config, pollLog>>

\* ------------------------------------------------------------ shutdown()
\* index.ts lines 415-436.  failC: positions of `cleanups` whose call throws;
\* failU: the host unregistrations that throw when called.
Shutdown(failC, failU) ==
    /\ nInit > 0
    /\ nShutdown < MaxShutdowns
    /\ nShutdown' = nShutdown + 1
    /\ healthTimer' = NULL
    /\ activeTimers' = activeTimers \ {healthTimer}
    /\ unsubLog' = unsubLog \o CleanupsInvoked(cleanups, failC)
    /\ subs' = SubsAfterCleanups(subs, cleanups, failC)
    /\ cleanups' = CleanupsAfterShutdown(cleanups)
    /\ reg' = RegAfterShutdown(reg, ctx, failU)
    /\ shutdownTrace' = TimerSteps(healthTimer) \o CleanupSteps(cleanups, failC)
                          \o <<Step("cleanups.length=0", NULL, "-", FALSE)>>
                          \o UnregSteps(ctx, failU) \o ReleaseSteps(ctx, failU)
    /\ shutdownThrew' = ShutdownThrows(ctx, failU)
    /\ IF ShutdownThrows(ctx, failU)
       THEN UNCHANGED <<client, ctx>>
       ELSE client' = NULL /\ ctx' = NULL
    /\ UNCHANGED <<nInit, pingVars, taskVars, callVars, pollLog>>

\* ------------------------------------------------------ connectivity poll
\* index.ts lines 289-291: an interval fires; `if (!client) return;` else
\* ping() starts on the current client
TimerTick(t) ==
    /\ t \in activeTimers
    /\ client # NULL
    /\ FreeSlots(pings) # {}
    /\ pings' = StartPing(pings, client, "tick", t)
    /\ UNCHANGED <<lifeVars, hostVars, connected, lastConnected, taskVars, callVars, pollLog>>

BoolStr(b) == IF b THEN "true" ELSE "false"

\* Response.ok of the fetch API: the status is in the range 200-299
ResOk(status) == status \in 200..299

\* how a fetch() settles: a response with a status, or a transport error
Response(status) == [kind |-> "response", status |-> status]
TransportError == [kind |-> "error", status |-> 0]

PingReturnsForAnyResponse(out) == out.kind = "response"

\* obsidian-client.ts lines 20-29: what ping() returns and stores in
\* this.connected when its fetch settles as out; no outcome makes it throw
PingReturns(out) == IF out.kind = "response" THEN ResOk(out.status) ELSE FALSE

PingOutcomes == {Response(200), Response(204), Response(401), Response(500), TransportError}

\* a flag that a failed ping cannot take back once a ping has succeeded
ConnectedStickyAfterPing(flag, out) == flag \/ PingReturns(out)

\* obsidian-client.ts lines 23 and 26: ping() assigns the flag whatever it
\* held before (`this.connected = res.ok`, `this.connected = false`)
ConnectedAfterPing(flag, out) == PingReturns(out)

\* a startup check whose catch logs as well
StartupLogWithCatch(n, c, ok) == IF c # NULL THEN n + (IF ok THEN 1 ELSE 2) ELSE n

\* index.ts lines 298-306: the startup check logs one line in its then(),
\* through `ctx?.log`, and `.catch(() => {})` logs nothing.  n: the lines
\* this startup check has logged
StartupLogAfter(n, c, ok) == IF c # NULL THEN n + 1 ELSE n

\* a poller that logs the state after every tick
PollLogEveryTick(pl, c, lc, now) ==
    IF c # NULL THEN [pl EXCEPT !.last = BoolStr(now), !.n = 1 - pl.n] ELSE pl

\* index.ts lines 292-295: the event a tick logs once its ping returned now.
\* pl: the poller's latest event; c: `ctx` now; lc: `lastConnected`
PollLogAfter(pl, c, lc, now) ==
    IF BoolStr(now) # lc /\ c # NULL
    THEN [pl EXCEPT !.last = BoolStr(now), !.n = 1 - pl.n]
    ELSE pl

\* obsidian-client.ts lines 20-29: the fetch of ping() settles as out.  Then
\* the caller's continuation: index.ts lines 292-295 for a tick, lines
\* 301-305 for the startup check.
PingDone(s, out) ==
    /\ pings[s].pc = "fetch"
    /\ connected' = [connected EXCEPT ![pings[s].client] =
                         ConnectedAfterPing(connected[pings[s].client], out)]
    /\ lastConnected' =
         IF pings[s].origin = "tick"
            /\ BoolStr(PingReturns(out)) # lastConnected[pings[s].timer]
         THEN [lastConnected EXCEPT ![pings[s].timer] = BoolStr(PingReturns(out))]
         ELSE lastConnected
    /\ pollLog' =
         IF pings[s].origin = "tick"
         THEN [pollLog EXCEPT ![pings[s].timer] =
                 PollLogAfter(pollLog[pings[s].timer], ctx,
                              lastConnected[pings[s].timer], PingReturns(out))]
         ELSE [pollLog EXCEPT ![pings[s].client].startup =
                 StartupLogAfter(@, ctx, PingReturns(out))]
    /\ pings' = [pings EXCEPT ![s] = IdlePing]
    /\ UNCHANGED <<lifeVars, hostVars, taskVars, callVars>>

\* ---------------------------------------------------- getContext() steps
\* index.ts lines 313-322, up to the first await.  c, cl: `ctx` and `client`
\* now; isConn: connected flag of cl; cfg: what getConfig() returns;
\* content: message.content.
GcStart(c, cl, isConn, cfg, content) ==
    LET g == [IdleGc EXCEPT !.mode = cfg.injectContext,
                            !.conn = cl # NULL /\ isConn,
                            !.content = content,
                            !.maxNotes = cfg.maxContextNotes]
    IN  IF c = NULL
        THEN [g EXCEPT !.pc = "done", !.ret = "threw"]     \* getCtx() is null
        ELSE IF ModeSkips(cfg.injectContext)
        THEN [g EXCEPT !.pc = "done", !.ret = "null"]
        ELSE IF cl = NULL
        THEN [g EXCEPT !.pc = "done", !.ret = "threw"]     \* getClient() is null
        ELSE IF ~isConn
        THEN [g EXCEPT !.pc = "done", !.ret = "null"]
        ELSE IF QuerySkips(content)
        THEN [g EXCEPT !.pc = "done", !.ret = "null"]
        ELSE [g EXCEPT !.pc = "search", !.nSearch = 1]

\* index.ts lines 322-335: search() resolved with `results`; the reads of
\* the selected notes are all started before the next await.  With no
\* client, getClient().read throws inside each inner try.
AfterSearch(g, cl, results) ==
    LET top == TopOf(results, g.maxNotes)
        g1  == [g EXCEPT !.results = results, !.top = top]
    IN  IF top = <<>>
        THEN [g1 EXCEPT !.pc = "done", !.ret = "null"]
        ELSE IF cl = NULL
        THEN [g1 EXCEPT !.pc = "done", !.ret = "block",
                        !.notes = [i \in 1..Len(top) |-> Placeholder(top[i])],
                        !.reads = [i \in 1..Len(top) |-> "unissued"]]
        ELSE [g1 EXCEPT !.pc = "reads",
                        !.notes = [i \in 1..Len(top) |-> Pending(top[i])],
                        !.reads = [i \in 1..Len(top) |-> "pending"]]

\* index.ts lines 342-345: search() rejected
AfterSearchFailed(g, c) ==
    [g EXCEPT !.pc = "done", !.ret = "null", !.searchFailed = TRUE,
              !.live = (c # NULL), !.warns = g.warns + WarnsLogged(c)]

\* Promise.all over reads with no inner try/catch: the first read that
\* fails rejects the batch, and the outer catch returns null
AfterReadNoCatch(g, i, outcome) ==
    IF outcome = Undefined
    THEN [g EXCEPT !.pc = "done", !.ret = "null",
                   !.reads = [g.reads EXCEPT ![i] = "fail"]]
    ELSE LET notes == [g.notes EXCEPT ![i] = Section(g.top[i], outcome)]
             g1    == [g EXCEPT !.notes = notes, !.reads = [g.reads EXCEPT ![i] = "ok"]]
         IN  IF \E j \in 1..Len(notes) : notes[j].kind = "pending"
             THEN g1
             ELSE [g1 EXCEPT !.pc = "done", !.ret = "block"]

\* index.ts lines 326-341: the read of note i settled with `outcome`; when
\* it was the last one, Promise.all resolves and the block is returned.
AfterRead(g, i, outcome) ==
    LET notes == [g.notes EXCEPT ![i] = Section(g.top[i], outcome)]
        reads == [g.reads EXCEPT ![i] = IF outcome = Undefined THEN "fail" ELSE "ok"]
        g1    == [g EXCEPT !.notes = notes, !.reads = reads]
    IN  IF \E j \in 1..Len(notes) : notes[j].kind = "pending"
        THEN g1
        ELSE [g1 EXCEPT !.pc = "done", !.ret = "block"]

\* the host calls the registered provider
GcInvoke(cfg, content) ==
    /\ gc.pc = "idle"
    /\ reg.provider
    /\ gc' = GcStart(ctx, client, client # NULL /\ connected[client], cfg, content)
    /\ UNCHANGED <<lifeVars, hostVars, pingVars, ms, sd, callVars, pollLog>>

GcSearchDone(results) ==
    /\ gc.pc = "search"
    /\ gc' = AfterSearch(gc, client, results)
    /\ UNCHANGED <<lifeVars, hostVars, pingVars, ms, sd, callVars, pollLog>>

GcSearchFail ==
    /\ gc.pc = "search"
    /\ gc' = AfterSearchFailed(gc, ctx)
    /\ UNCHANGED <<lifeVars, hostVars, pingVars, ms, sd, callVars, pollLog>>

GcReadDone(i, outcome) ==
    /\ gc.pc = "reads"
    /\ i \in 1..Len(gc.notes)
    /\ gc.notes[i].kind = "pending"
    /\ gc' = AfterRead(gc, i, outcome)
    /\ UNCHANGED <<lifeVars, hostVars, pingVars, ms, sd, callVars, pollLog>>

\* the host takes the settled result
GcReturn ==
    /\ gc.pc = "done"
    /\ gc' = IdleGc
    /\ UNCHANGED <<lifeVars, hostVars, pingVars, ms, sd, callVars, pollLog>>

\* ------------------------------------------------- inputs of the provider
Files == {"a.md", "b.md", "c.md", "d.md", "e.md"}

\* the vault server answers a search with the first notes of one of its
\* rankings (the order is the server's, not alphabetical)
Rankings ==
    {<<"d.md", "b.md", "a.md", "c.md", "e.md">>, <<"b.md", "c.md", "d.md", "e.md", "a.md">>}

ResultSpace == {SubSeq(r, 1, n) : r \in Rankings, n \in 0..Min(MaxResults, Cardinality(Files))}

ContentSpace == {Undefined, Some(<<>>), Some(<<" ", " ">>), Some(<<"m">>), Some(<<" ", "m", " ">>)}

MaxNotesSpace == {Undefined, Some(-1), Some(0), Some(1), Some(2)}

CtxConfigSpace ==
    [injectContext : {"always", "on-demand", "never"}, maxContextNotes : MaxNotesSpace]

\* Undefined: the read failed; Some(n): a note of n characters
ReadOutcomes == {Undefined, Some(1500), Some(2500)}

\* the host runs init() once, then may shut the plugin down at any time
InitOnce == nInit = 0 /\ \E hasA2A \in BOOLEAN : PluginInit(hasA2A)

AnyShutdown ==
    \E failC \in SUBSET (1..Len(cleanups)), failU \in SUBSET Range(UnregOrder) :
        Shutdown(failC, failU)

AnyPingDone == \E s \in 1..MaxPings, out \in PingOutcomes : PingDone(s, out)

ContextNext ==
    \/ InitOnce
    \/ AnyShutdown
    \/ AnyPingDone
    \/ \E cfg \in CtxConfigSpace, content \in ContentSpace : GcInvoke(cfg, content)
    \/ \E results \in ResultSpace : GcSearchDone(results)
    \/ GcSearchFail
    \/ \E i \in 1..MaxResults, outcome \in ReadOutcomes : GcReadDone(i, outcome)
    \/ GcReturn

SpecContext == Init /\ [][ContextNext]_vars

\* ------------------------------------------------ memory:search handler
Subscribed(event) == \E h \in subs : h.event = event

\* the event bus delivers a memory:search event to the subscribed handler
MsInvoke(query, results) ==
    /\ ms.pc = "idle"
    /\ Subscribed("memory:search")
    /\ ms' = MsStart(client, client # NULL /\ connected[client], query, results)
    /\ UNCHANGED <<lifeVars, hostVars, pingVars, gc, sd, callVars, pollLog>>

MsSearchDone(hits) ==
    /\ ms.pc = "search"
    /\ ms' = MsAfterSearch(ms, hits)
    /\ UNCHANGED <<lifeVars, hostVars, pingVars, gc, sd, callVars, pollLog>>

MsSearchFail ==
    /\ ms.pc = "search"
    /\ ms' = MsAfterSearchFailed(ms)
    /\ UNCHANGED <<lifeVars, hostVars, pingVars, gc, sd, callVars, pollLog>>

\* the event bus is done with the event
MsReturn ==
    /\ ms.pc = "done"
    /\ ms' = IdleMs
    /\ UNCHANGED <<lifeVars, hostVars, pingVars, gc, sd, callVars, pollLog>>

\* inputs: what the vault server returns for each note
Hit(f, wellFormed) ==
    [filename |-> f,
     score |-> IF f = "d.md" THEN 9 ELSE 5,
     matches |-> IF ~wellFormed THEN Undefined                  \* no matches array
                 ELSE IF f = "a.md" THEN Some(<<>>)             \* no match listed
                 ELSE Some(<<<<"context of ", f>>>>)]

\* a response is one of the rankings, all of it well formed or with its
\* second result malformed
HitSpace ==
    {[i \in 1..Len(r) |-> Hit(r[i], i # bad)] : r \in ResultSpace, bad \in {0, 2}}

PrimaryEntry == [content |-> "primary", source |-> "memory", score |-> 7]

PayloadSpace == {Undefined, Some(<<>>), Some(<<PrimaryEntry>>)}

SearchEventNext ==
    \/ InitOnce
    \/ AnyShutdown
    \/ AnyPingDone
    \/ \E results \in PayloadSpace : MsInvoke("q", results)
    \/ \E hits \in HitSpace : MsSearchDone(hits)
    \/ MsSearchFail
    \/ MsReturn

SpecSearchEvent == Init /\ [][SearchEventNext]_vars

\* ----------------------------------------------- session:destroy handler
\* the event bus delivers a session:destroy event to the subscribed handler
SdInvoke(cfg, session, now) ==
    /\ sd.pc = "idle"
    /\ Subscribed("session:destroy")
    /\ sd' = SdStart(ctx, client, client # NULL /\ connected[client], cfg, session, now)
    /\ UNCHANGED <<lifeVars, hostVars, pingVars, gc, ms, callVars, pollLog>>

SdWriteDone ==
    /\ sd.pc = "write"
    /\ sd' = SdAfterWrite(sd, ctx)
    /\ UNCHANGED <<lifeVars, hostVars, pingVars, gc, ms, callVars, pollLog>>

SdWriteFail ==
    /\ sd.pc = "write"
    /\ sd' = SdAfterWriteFailed(sd, ctx)
    /\ UNCHANGED <<lifeVars, hostVars, pingVars, gc, ms, callVars, pollLog>>

SdReturn ==
    /\ sd.pc = "done"
    /\ sd' = IdleSd
    /\ UNCHANGED <<lifeVars, hostVars, pingVars, gc, ms, callVars, pollLog>>

ArchiveSpace ==
    {JsVal("boolean", "true"), JsVal("boolean", "false"), JsVal("string", "true"),
     JsVal("string", "false"), JsVal("string", "TRUE"), JsVal("number", "1"),
     JsVal("undefined", "undefined")}

VaultPathSpace == {Undefined, Some("Notes"), Some("")}

SdConfigSpace == [sessionArchive : ArchiveSpace, vaultPath : VaultPathSpace]

SessionSpace == {"s1", "s2"}

ClockSpace ==
    {[y |-> "2026", m |-> "11", d |-> "03", t |-> "09:30:00.000"],
     [y |-> "2026", m |-> "12", d |-> "31", t |-> "23:59:59.999"]}

SessionEventNext ==
    \/ InitOnce
    \/ AnyShutdown
    \/ AnyPingDone
    \/ \E cfg \in SdConfigSpace, session \in SessionSpace, now \in ClockSpace :
          SdInvoke(cfg, session, now)
    \/ SdWriteDone
    \/ SdWriteFail
    \/ SdReturn

SpecSessionEvent == Init /\ [][SessionEventNext]_vars

\* ================================================ context provider claims
Blank(content) ==
    content = Undefined \/ \A i \in 1..Len(content[1]) : content[1][i] = " "

GuardSkips == gc.mode # "always" \/ ~gc.conn \/ Blank(gc.content)

\* C5 as stated: a skipped call returns null, and a failed search returns
\* null with exactly one warning logged.
ContextNullOneWarning ==
    gc.pc = "done"
        => /\ GuardSkips => gc.ret = "null"
           /\ gc.searchFailed => gc.ret = "null" /\ gc.warns = 1

\* C5 as amended: a skipped call returns null without any vault request; a
\* failed search returns null and never throws, and logs one warning when
\* `ctx` is still set at that moment, none when shutdown() has released it
\* while the search was in flight.
ContextNullWarningWhileRunning ==
    gc.pc = "done"
        => /\ GuardSkips => gc.ret = "null" /\ gc.nSearch = 0 /\ gc.warns = 0
           /\ gc.searchFailed =>
                 /\ gc.ret = "null"
                 /\ gc.warns = (IF gc.live THEN 1 ELSE 0)
                 /\ ctx # NULL => gc.warns = 1

ContextNullWarningWitness ==
    /\ gc.pc = "done" /\ gc.searchFailed /\ gc.ret = "null"
    /\ gc.warns = 1 /\ ctx # NULL

\* C6: once the search has selected notes, read failures never abort the
\* batch: the call ends only when no read is pending, and it returns one
\* block with one section per selected result, a placeholder where the read
\* failed (or could not be made) and the note's content where it succeeded.
ReadFailuresStayPerNote ==
    /\ gc.pc = "reads" => gc.ret = "-"
    /\ (gc.pc = "done" /\ gc.top # <<>>)
         => /\ gc.ret = "block"
            /\ gc.warns = 0
            /\ Len(gc.notes) = Len(gc.top)
            /\ \A i \in 1..Len(gc.top) :
                  /\ gc.notes[i].file = gc.top[i]
                  /\ gc.reads[i] \in {"ok", "fail", "unissued"}
                  /\ gc.reads[i] = "ok" <=> gc.notes[i].kind = "content"
                  /\ gc.reads[i] # "ok" <=> gc.notes[i].kind = "placeholder"

ReadFailuresStayPerNoteWitness ==
    /\ gc.pc = "done" /\ gc.ret = "block" /\ Len(gc.notes) = 3
    /\ gc.reads = <<"fail", "ok", "fail">>
    /\ gc.notes[1].kind = "placeholder"
    /\ gc.notes[2] = [file |-> gc.top[2], kind |-> "content", len |-> ContentCap]

\* C7: the block has exactly min(maxContextNotes, n) sections (3 when the
\* setting is absent), headed by the filenames of the results in search order.
ContextSectionsMinOfMaxAndN ==
    (gc.pc = "done" /\ gc.ret = "block")
        => /\ Len(gc.notes) = Min(OrElse(gc.maxNotes, 3), Len(gc.results))
           /\ \A i \in 1..Len(gc.notes) : gc.notes[i].file = gc.results[i]

\* ================================================== event handler claims
ArchiveTrue(x) == x \in {JsVal("boolean", "true"), JsVal("string", "true")}

\* C8: the session:destroy handler issues a write exactly when the archive
\* setting it read is true or "true" and the client was connected at that
\* moment; then it is one write, to <vaultPath or "WOPR">/sessions/
\* <YYYY-MM-DD>-<session>.md.
SessionArchiveWriteIff ==
    sd.pc # "idle"
        => /\ Len(sd.writes) <= 1
           /\ sd.writes # <<>> <=> (ArchiveTrue(sd.archive) /\ sd.conn)
           /\ sd.writes # <<>> =>
                 sd.writes[1].path =
                    <<IF sd.vaultPath = Undefined THEN "WOPR" ELSE sd.vaultPath[1],
                      "/sessions/", sd.now.y, "-", sd.now.m, "-", sd.now.d,
                      "-", sd.session, ".md">>

SessionArchiveWriteIffWitness ==
    /\ sd.pc = "write"
    /\ sd.archive = JsVal("string", "true")
    /\ sd.vaultPath = Undefined
    /\ sd.writes = <<[path |-> <<"WOPR", "/sessions/", "2026", "-", "12", "-", "31", "-", "s2", ".md">>]>>

\* C9 as stated: a failed archive write logs one warning; the handler
\* resolves, writes once and logs no success.
ArchiveFailureOneWarning ==
    (sd.pc = "done" /\ sd.writeFailed)
        => sd.warns = 1 /\ sd.ret = "ok" /\ sd.infos = 0 /\ Len(sd.writes) = 1

\* C9 as amended: a failed archive write never rejects, is not retried and
\* logs no success; it logs one warning when `ctx` is still set at that
\* moment, none when shutdown() has released it while the write was in flight.
ArchiveFailureWarnsWhileRunning ==
    (sd.pc = "done" /\ sd.writeFailed)
        => /\ sd.ret = "ok" /\ sd.infos = 0 /\ Len(sd.writes) = 1
           /\ sd.warns = (IF sd.live THEN 1 ELSE 0)
           /\ ctx # NULL => sd.warns = 1

ArchiveFailureWarnsWitness ==
    /\ sd.pc = "done" /\ sd.writeFailed /\ sd.ret = "ok"
    /\ sd.warns = 1 /\ ctx # NULL

\* C10: a disconnected memory:search handler leaves the collection alone
\* and searches nothing; a connected one searches once with context length
\* 150 and only appends: at most 3 entries, the i-th tagged obsidian:<the
\* i-th result's filename>, after the entries that were there.
SearchEventAppendsAtMostThree ==
    ms.pc \in {"search", "done"}
        => /\ ~ms.conn => ms.payload = ms.before /\ ms.nSearch = 0 /\ ms.req = Undefined
           /\ ms.conn => /\ ms.nSearch = 1
                         /\ ms.req = Some([query |-> "q", contextLength |-> 150])
           /\ ms.pc = "search" => ms.payload = ms.before
           /\ ms.before = Undefined <=> ms.payload = Undefined
           /\ ms.before # Undefined =>
                 LET b == ms.before[1]
                     p == ms.payload[1]
                     k == Len(p) - Len(b)
                 IN  /\ k \in 0..3 /\ k <= Len(ms.hits)
                     /\ SubSeq(p, 1, Len(b)) = b
                     /\ \A i \in 1..k :
                           /\ p[Len(b) + i].source = <<"obsidian:", ms.hits[i].filename>>
                           /\ p[Len(b) + i].score = ms.hits[i].score
                     /\ (\A i \in 1..Len(ms.hits) : i <= 3 => ms.hits[i].matches # Undefined)
                           => k = Min(3, Len(ms.hits))

SearchEventAppendsWitness ==
    /\ ms.pc = "done" /\ ms.conn
    /\ ms.before = Some(<<PrimaryEntry>>)
    /\ Len(ms.hits) = 4
    /\ Len(ms.payload[1]) = 4
    /\ ms.payload[1][1] = PrimaryEntry
    /\ ms.payload[1][4].source = <<"obsidian:", "a.md">>
    /\ ms.payload[1][4].content = "a.md"

\* the host may call init() again, with or without a shutdown() in between
LifecycleNext ==
    \/ \E hasA2A \in BOOLEAN : PluginInit(hasA2A)
    \/ AnyShutdown
    \/ AnyPingDone

SpecLifecycle == Init /\ [][LifecycleNext]_vars

\* ================================================= ObsidianClient requests
\* Strings that end up in a URL path are sequences of characters.

\* `${x}` and encodeURIComponent(x) of an absent argument: "undefined"
UndefinedStr == <<"u", "n", "d", "e", "f", "i", "n", "e", "d">>
ToStr(x) == IF x = Undefined THEN UndefinedStr ELSE x[1]

\* an encoder that leaves a "%" alone, taking it for an escape already made
EncodeCharKeepingPercent(ch) ==
    IF ch = "/" THEN <<"%", "2", "F">>
    ELSE IF ch = " " THEN <<"%", "2", "0">>
    ELSE <<ch>>

\* encodeURIComponent, for the characters of the modelled alphabet: letters,
\* digits, "." and "-" stay, every other character becomes %XX
EncodeChar(ch) ==
    IF ch = "/" THEN <<"%", "2", "F">>
    ELSE IF ch = " " THEN <<"%", "2", "0">>
    ELSE IF ch = "%" THEN <<"%", "2", "5">>
    ELSE <<ch>>

RECURSIVE EncodeURIComponent(_)
EncodeURIComponent(s) ==
    IF s = <<>> THEN <<>> ELSE EncodeChar(Head(s)) \o EncodeURIComponent(Tail(s))

\* index.ts line 281: config.port ?? 27123
DefaultPort == 27123

\* obsidian-client.ts lines 8-14: baseUrl and headers of the client built by
\* the init() that read configuration c (index.ts lines 280-281)
BaseUrl(c) == <<"http://127.0.0.1:", OrElse(c.port, DefaultPort)>>
Authorization(c) == <<"Bearer ", OrElse(c.apiKey, "")>>

\* the call arguments of a client method; absent ones are Undefined
CallArgs(query, path, content, folder) ==
    [query |-> query, path |-> path, content |-> content, folder |-> folder]

\* obsidian-client.ts line 59: searchParams.set("query", query) stores the
\* string form of its argument
QueryParam(q) == IF q = Undefined THEN "undefined" ELSE q[1]

\* a list() that appends the separator whatever the folder
ListPathAlways(folder) == EncodeURIComponent(ToStr(folder)) \o <<"/">>

\* obsidian-client.ts lines 67-68: folder = "" when absent;
\* folder ? `${encodeURIComponent(folder)}/` : ""
ListPath(folder) ==
    IF OrElse(folder, <<>>) = <<>> THEN <<>>
    ELSE EncodeURIComponent(OrElse(folder, <<>>)) \o <<"/">>

\* obsidian-client.ts lines 32, 40-43, 49-52, 58-62, 69: the one request a
\* method sends.  c: the configuration its client was built from
ClientRequest(op, a, c) ==
    LET r == [base |-> BaseUrl(c), auth |-> Authorization(c), method |-> "GET",
              route |-> "/vault/", seg |-> <<>>, params |-> Undefined,
              body |-> Undefined]
    IN  CASE op = "read"   -> [r EXCEPT !.seg = EncodeURIComponent(ToStr(a.path))]
          [] op = "write"  -> [r EXCEPT !.seg = EncodeURIComponent(ToStr(a.path)),
                                        !.method = "PUT", !.body = a.content]
          [] op = "append" -> [r EXCEPT !.seg = EncodeURIComponent(ToStr(a.path)),
                                        !.method = "POST", !.body = a.content]
          [] op = "search" -> [r EXCEPT !.route = "/search/simple/",
                                        !.params = Some(SearchRequest(QueryParam(a.query), Undefined))]
          [] op = "list"   -> [r EXCEPT !.seg = ListPath(a.folder)]

\* how the fetch of a method settles: a response with a status and, when the
\* body parses as JSON, the parsed body; or a transport error
Reply(status, body) == [kind |-> "response", status |-> status, body |-> body]
NoReply == [kind |-> "error", status |-> 0, body |-> Undefined]

StatusText(status) ==
    CASE status = 401 -> "Unauthorized"
      [] status = 404 -> "Not Found"
      [] status = 500 -> "Internal Server Error"
      [] OTHER -> "OK"

\* `${res.status}`: the decimal digits of the status
StatusStr(status) ==
    CASE status = 401 -> "401"
      [] status = 404 -> "404"
      [] status = 500 -> "500"
      [] OTHER -> "200"

\* obsidian-client.ts lines 35, 45, 54, 63, 70: the message of the Error a
\* method throws for a response that is not ok, as the sequence of its parts
FailureTail(status) == <<"\": ", StatusStr(status), " ", StatusText(status)>>

FailureMessage(op, a, status) ==
    CASE op = "read"   -> <<"Failed to read note \"">> \o ToStr(a.path) \o FailureTail(status)
      [] op = "write"  -> <<"Failed to write note \"">> \o ToStr(a.path) \o FailureTail(status)
      [] op = "append" -> <<"Failed to append to note \"">> \o ToStr(a.path) \o FailureTail(status)
      [] op = "search" -> <<"Search failed: ", StatusStr(status), " ", StatusText(status)>>
      [] op = "list"   -> <<"Failed to list folder \"">> \o OrElse(a.folder, <<>>) \o FailureTail(status)

Threw(message) == [threw |-> TRUE, message |-> message, value |-> Undefined]
Returned(value) == [threw |-> FALSE, message |-> <<>>, value |-> value]

\* obsidian-client.ts line 72: data.files ?? []
FilesOf(data) == OrElse(data.files, <<>>)

\* methods that return whatever the server sent, whatever its status
ClientResultIgnoringStatus(op, a, out) ==
    IF out.kind = "error" THEN Threw(<<"fetch failed">>)
    ELSE IF op \in {"write", "append"} THEN Returned(Undefined)
    ELSE IF out.body = Undefined THEN Threw(<<"Unexpected end of JSON input">>)
    ELSE IF op = "list" THEN Returned(Some(FilesOf(out.body[1])))
    ELSE Returned(out.body)

\* obsidian-client.ts lines 31-73: what a method other than ping() gives its
\* caller when its fetch settles as out.  A rejected fetch and a body that
\* is not JSON propagate as they are; a write or append returns nothing.
ClientResult(op, a, out) ==
    IF out.kind = "error" THEN Threw(<<"fetch failed">>)
    ELSE IF ~ResOk(out.status) THEN Threw(FailureMessage(op, a, out.status))
    ELSE IF op \in {"write", "append"} THEN Returned(Undefined)
    ELSE IF out.body = Undefined THEN Threw(<<"Unexpected end of JSON input">>)
    ELSE IF op = "list" THEN Returned(Some(FilesOf(out.body[1])))
    ELSE Returned(out.body)

\* a client whose every method records the outcome in this.connected
ConnectedTracksCalls(flag, r) == ~r.threw

\* obsidian-client.ts lines 31-73: no method other than ping() assigns
\* this.connected
ConnectedAfterCall(flag, r) == flag

\* ===================================================== A2A tool handlers
\* a2a-tools.ts line 28: limit = 5
ToolDefaultLimit == 5

\* index.ts line 391: limit = 10
ExtensionDefaultLimit == 10

\* the result envelope: a2a-tools.ts lines 5-7 (no isError member) and 9-12
Ok(data) == [kind |-> "envelope", isError |-> Undefined, text |-> <<"JSON", data>>]
Err(message) == [kind |-> "envelope", isError |-> Some(TRUE), text |-> message]

\* what a caller gets that is no envelope: a value, a rejected promise, an
\* exception thrown by the call itself
Value(v) == [kind |-> "value", isError |-> Undefined, text |-> v]
Rejected(message) == [kind |-> "rejected", isError |-> Undefined, text |-> message]
Thrown(message) == [kind |-> "threw", isError |-> Undefined, text |-> message]

\* the argument object a caller passes: Undefined when there is none, else
\* Some(record) whose absent members are Undefined
Member(args, f) == IF args = Undefined THEN Undefined ELSE args[1][f]

\* a2a-tools.ts lines 28, 48, 69, 90: `const {...} = args` destructures
\* before the try block, so an absent argument object throws out of the
\* handler; line 110 of the list tool reads `(args ?? {})`
DestructureThrows(op, args) == op # "list" /\ args = Undefined

\* the arguments a tool handler passes to the client method: a2a-tools.ts
\* lines 30, 50, 71, 92, 112 (folder = "" at line 110)
ToolCallArgs(op, args) ==
    CallArgs(Member(args, "query"), Member(args, "path"), Member(args, "content"),
             IF op = "list" THEN Some(OrElse(Member(args, "folder"), <<>>))
             ELSE Undefined)

\* a2a-tools.ts line 31: the item returned for result r
ToolItem(r) ==
    [path |-> r.filename, score |-> r.score,
     context |-> IF r.matches[1] = <<>> THEN "" ELSE r.matches[1][1]]

\* a2a-tools.ts line 31: results.slice(0, limit).map(...)
ToolSearchData(results, limit) ==
    LET sel == JsSlice(results, limit)
    IN  [i \in 1..Len(sel) |-> ToolItem(sel[i])]

\* a2a-tools.ts lines 31, 51, 72, 93, 113: the envelope for a call the client
\* method completed; the search tool throws inside its try block when a
\* selected result has no matches array, and the catch converts that too
ToolSuccess(op, args, r) ==
    CASE op = "search" ->
           LET limit == OrElse(Member(args, "limit"), ToolDefaultLimit)
           IN  IF Malformed(JsSlice(r.value[1], limit))
               THEN Err(<<"Cannot read properties of undefined (reading '0')">>)
               ELSE Ok(ToolSearchData(r.value[1], limit))
      [] op = "read" ->
           Ok([path |-> r.value[1].path, content |-> r.value[1].content])
      [] op \in {"write", "append"} ->
           Ok([success |-> TRUE, path |-> Member(args, "path")])
      [] op = "list" ->
           Ok([folder |-> OrElse(Member(args, "folder"), <<>>), files |-> r.value[1]])

\* a handler without the catch of lines 32-34
ToolReturnPropagating(op, args, r) ==
    IF r.threw THEN Rejected(r.message) ELSE ToolSuccess(op, args, r)

\* a2a-tools.ts lines 29-34, 49-54, 70-75, 91-96, 111-116: what the handler
\* returns once the client method has settled as r
ToolReturn(op, args, r) ==
    IF r.threw THEN Err(r.message) ELSE ToolSuccess(op, args, r)

\* ====================================================== extension methods
\* index.ts lines 391-398: the arguments an extension method passes on
ExtCallArgs(op, args) ==
    CallArgs(Member(args, "query"), Member(args, "path"), Member(args, "content"),
             Member(args, "folder"))

\* index.ts lines 391-398: what the extension method's promise settles to
ExtReturn(op, args, r) ==
    IF r.threw THEN Rejected(r.message)
    ELSE IF op = "search"
    THEN Value(Some(JsSlice(r.value[1], OrElse(Member(args, "limit"), ExtensionDefaultLimit))))
    ELSE Value(r.value)

\* ============================================ a tool or extension call runs
\* a2a-tools.ts lines 27-30 (and 47-50, 68-71, 89-92, 109-112), up to the
\* await.  bound: the client buildA2ATools was given; c: the configuration
\* that client was built from; modCl: the module-level `client` now
ToolStart(bound, c, modCl, op, args) ==
    LET k == [IdleCall EXCEPT !.via = "tool", !.op = op, !.args = args,
                              !.target = bound, !.modClient = modCl]
    IN  IF DestructureThrows(op, args)
        THEN [k EXCEPT !.pc = "done",
                       !.ret = Rejected(<<"Cannot destructure property of undefined">>)]
        ELSE [k EXCEPT !.pc = "fetch", !.nReq = 1,
                       !.req = Some(ClientRequest(op, ToolCallArgs(op, args), c))]

\* extension methods that use a client without looking whether there is one
ExtStartUnchecked(modCl, isConn, c, op, args) ==
    LET k == [IdleCall EXCEPT !.via = "extension", !.op = op, !.args = args,
                              !.target = modCl, !.modClient = modCl]
    IN  IF op = "isConnected"
        THEN [k EXCEPT !.pc = "done", !.ret = Value(Some(isConn))]
        ELSE [k EXCEPT !.pc = "fetch", !.nReq = 1,
                       !.req = Some(ClientRequest(op, ExtCallArgs(op, args), c))]

\* index.ts lines 391-399, up to the await.  modCl: the module-level
\* `client` now (getClient() returns it, also when it is null); isConn: its
\* connected flag; c: the configuration it was built from
ExtStart(modCl, isConn, c, op, args) ==
    LET k == [IdleCall EXCEPT !.via = "extension", !.op = op, !.args = args,
                              !.target = modCl, !.modClient = modCl]
    IN  IF op = "isConnected"                  \* client?.isConnected() ?? false
        THEN [k EXCEPT !.pc = "done", !.ret = Value(Some(modCl # NULL /\ isConn))]
        ELSE IF modCl = NULL
        THEN [k EXCEPT !.pc = "done",
                       !.ret = Thrown(<<"Cannot read properties of null">>)]
        ELSE [k EXCEPT !.pc = "fetch", !.nReq = 1,
                       !.req = Some(ClientRequest(op, ExtCallArgs(op, args), c))]

\* the client method's fetch settled as out: obsidian-client.ts lines 31-73,
\* then the rest of the handler or of the extension method
CallSettled(k, out) ==
    LET a == IF k.via = "tool" THEN ToolCallArgs(k.op, k.args)
             ELSE ExtCallArgs(k.op, k.args)
        r == ClientResult(k.op, a, out)
    IN  [k EXCEPT !.pc = "done", !.out = Some(out), !.res = Some(r),
                  !.ret = IF k.via = "tool" THEN ToolReturn(k.op, k.args, r)
                          ELSE ExtReturn(k.op, k.args, r)]

\* the host calls the handler of tool obsidian.<op> with args
ToolInvoke(op, args) ==
    /\ cc.pc = "idle"
    /\ reg.a2a # NULL
    /\ cc' = ToolStart(reg.a2a, initConfig[reg.a2a], client, op, args)
    /\ UNCHANGED <<lifeVars, hostVars, pingVars, taskVars, config, initConfig, pollLog>>

\* another plugin calls method op of the registered extension
ExtInvoke(op, args) ==
    /\ cc.pc = "idle"
    /\ reg.extension
    /\ cc' = ExtStart(client, client # NULL /\ connected[client],
                      IF client # NULL THEN initConfig[client] ELSE StoredConfig,
                      op, args)
    /\ UNCHANGED <<lifeVars, hostVars, pingVars, taskVars, config, initConfig, pollLog>>

CallSettle(out) ==
    /\ cc.pc = "fetch"
    /\ cc' = CallSettled(cc, out)
    /\ connected' = [connected EXCEPT ![cc.target] =
                       ConnectedAfterCall(connected[cc.target], CallSettled(cc, out).res[1])]
    /\ UNCHANGED <<lifeVars, hostVars, lastConnected, pings, taskVars, config, initConfig, pollLog>>

CallReturn ==
    /\ cc.pc = "done"
    /\ cc' = IdleCall
    /\ UNCHANGED <<lifeVars, hostVars, pingVars, taskVars, config, initConfig, pollLog>>

\* ------------------------------------------------------ inputs of a call
ToolOps == {"search", "read", "write", "append", "list"}

Args(query, limit, path, content, folder) ==
    Some([query |-> query, limit |-> limit, path |-> path, content |-> content,
          folder |-> folder])

LimitSpace == {Undefined, Some(-1), Some(0), Some(2)}

NotePath == <<"N", "/", "a", " ", "b", ".", "m", "d">>
NotesFolder == <<"N", "o", "t", "e", "s">>

\* a path that holds an already encoded separator and a raw one
EncodedPath == <<"x", "%", "2", "F", "y", "/", "z">>

\* the argument objects a caller may pass to op; Undefined: none at all
ArgSpace(op) ==
    {Undefined} \cup
    CASE op = "search" ->
           {Args(q, l, Undefined, Undefined, Undefined) :
              q \in {Undefined, Some("q")}, l \in LimitSpace}
      [] op = "read" ->
           {Args(Undefined, Undefined, p, Undefined, Undefined) :
              p \in {Undefined, Some(NotePath), Some(EncodedPath)}}
      [] op \in {"write", "append"} ->
           {Args(Undefined, Undefined, Undefined, Undefined, Undefined),
            Args(Undefined, Undefined, Some(NotePath), Some("text"), Undefined)}
      [] op = "list" ->
           {Args(Undefined, Undefined, Undefined, Undefined, f) :
              f \in {Undefined, Some(<<>>), Some(NotesFolder)}}
      [] OTHER -> {}

\* a search response of n results, best first; result `bad` (if any) has no
\* matches array, the third lists no match
LongHits(n, bad) ==
    [i \in 1..n |->
       [filename |-> <<"note-", i>>, score |-> n - i,
        matches |-> IF i = bad THEN Undefined
                    ELSE IF i = 3 THEN Some(<<>>)
                    ELSE Some(<<<<"context of ", i>>>>)]]

HitCounts == {0, 1, 3, 6, 11}

Note == [path |-> NotePath, content |-> "body"]

\* how the fetch of op may settle
OutcomeSpace(op) ==
    {NoReply, Reply(404, Undefined), Reply(500, Undefined)} \cup
    CASE op = "search" ->
           {Reply(200, Some(LongHits(n, bad))) : n \in HitCounts, bad \in {0, 2}}
      [] op = "read" -> {Reply(200, Some(Note)), Reply(200, Undefined)}
      [] op \in {"write", "append"} -> {Reply(204, Undefined)}
      [] op = "list" ->
           {Reply(200, Some([files |-> Undefined])),
            Reply(200, Some([files |-> Some(<<"a.md", "N/b.md">>)]))}
      [] OTHER -> {}

CallsNext ==
    \/ InitOnce
    \/ AnyShutdown
    \/ AnyPingDone
    \/ \E op \in ToolOps : \E args \in ArgSpace(op) : ToolInvoke(op, args)
    \/ \E op \in ToolOps \cup {"isConnected"} : \E args \in ArgSpace(op) :
          ExtInvoke(op, args)
    \/ \E out \in OutcomeSpace(cc.op) : CallSettle(out)
    \/ CallReturn

SpecCalls == Init /\ [][CallsNext]_vars

\* ======================================================== shutdown claims
\* every handle init() has pushed so far, in registration order
RECURSIVE AllPushed(_)
AllPushed(n) == IF n = 0 THEN <<>> ELSE AllPushed(n - 1) \o PushedByInit(n)

IsUnreg(st) == st.op \in Range(UnregOrder)

Called(op) == \E i \in 1..Len(shutdownTrace) : shutdownTrace[i].op = op

Observable == <<healthTimer, activeTimers, cleanups, client, ctx, subs, reg>>

\* C1: a shutdown() that follows another shutdown() changes nothing
\* observable, calls no cleanup and no unregistration, and does not reject.
ShutdownTwiceSameAsOnce ==
    [][(nShutdown >= 1 /\ nShutdown' = nShutdown + 1)
         => /\ Observable' = Observable
            /\ \A i \in 1..Len(shutdownTrace') :
                  shutdownTrace'[i].op # "cleanup" /\ ~IsUnreg(shutdownTrace'[i])
            /\ ~shutdownThrew']_vars

\* C2: when an unregistration throws during shutdown(), the other two are
\* still called and the client reference is still released.
UnregFailureDoesNotStopShutdown ==
    (nShutdown >= 1 /\ \E i \in 1..Len(shutdownTrace) :
                          IsUnreg(shutdownTrace[i]) /\ shutdownTrace[i].threw)
        => /\ \A u \in Range(UnregOrder) : Called(u)
           /\ client = NULL

\* C3: over any number of shutdown() calls every handle pushed by init() is
\* invoked exactly once, in registration order, and after a shutdown() the
\* registry is empty: the handles invoked so far followed by those still in
\* the registry are exactly the handles pushed, in order.
CleanupsOnceInOrder ==
    /\ unsubLog \o cleanups = AllPushed(nInit)
    /\ nShutdown >= 1 => cleanups = <<>>

CleanupsOnceInOrderWitness ==
    /\ nInit = 2
    /\ nShutdown = 2
    /\ unsubLog = PushedByInit(1) \o PushedByInit(2)

\* C4: a cleanup that throws stops nothing: every handle pushed has been
\* invoked, the registry is cleared, the unregistrations are reached, and
\* unless one of those throws, all three are called, the client is released
\* and shutdown() does not reject.
\* (nShutdown >= 1: shutdownTrace is of a shutdown() after the last init())
CleanupThrew ==
    /\ nShutdown >= 1
    /\ \E i \in 1..Len(shutdownTrace) : shutdownTrace[i].op = "cleanup" /\ shutdownTrace[i].threw

UnregThrew ==
    /\ nShutdown >= 1
    /\ \E i \in 1..Len(shutdownTrace) : IsUnreg(shutdownTrace[i]) /\ shutdownTrace[i].threw

CleanupFailureIsContained ==
    CleanupThrew
        => /\ unsubLog = AllPushed(nInit)
           /\ cleanups = <<>>
           /\ Called("cleanups.length=0")
           /\ Called(UnregOrder[1])
           /\ ~UnregThrew =>
                 /\ \A u \in Range(UnregOrder) : Called(u)
                 /\ client = NULL /\ ctx = NULL
                 /\ ~shutdownThrew

CleanupFailureIsContainedWitness ==
    /\ nShutdown = 1
    /\ Len(shutdownTrace) >= 3
    /\ shutdownTrace[1].op = "clearInterval"
    /\ shutdownTrace[2].op = "cleanup" /\ shutdownTrace[2].threw
    /\ shutdownTrace[3].op = "cleanup" /\ ~shutdownTrace[3].threw
    /\ Handle(shutdownTrace[2].id, shutdownTrace[2].event) \in subs
    /\ Handle(shutdownTrace[3].id, shutdownTrace[3].event) \notin subs
    /\ client = NULL


\* ================================================ swallowed failure claims
\* C11: a failure inside the memory:search handler, whether the vault search
\* rejects or a result cannot be read, is swallowed: the handler returns
\* normally, logs nothing, and the entries that were in payload.results
\* before the call are still its first entries, unchanged
IsPrefix(a, b) == Len(a) <= Len(b) /\ SubSeq(b, 1, Len(a)) = a

SearchEventFailureSwallowed ==
    (ms.pc = "done" /\ ms.failure # "none") =>
        /\ ms.ret = "ok"
        /\ ms.logs = 0
        /\ ms.nSearch = 1
        /\ (ms.before = Undefined) = (ms.payload = Undefined)
        /\ ms.before # Undefined => IsPrefix(ms.before[1], ms.payload[1])
        /\ ms.failure = "search" => ms.payload = ms.before

\* a result that cannot be read ended the loop after the first result had
\* been pushed behind the primary entry
SearchEventFailureWitness ==
    /\ ms.pc = "done"
    /\ ms.failure = "result"
    /\ ms.before = Some(<<PrimaryEntry>>)
    /\ Len(ms.payload[1]) = 2

\* ===================================================== tool call claims
ToolDone == cc.pc = "done" /\ cc.via = "tool"

\* the client method of the finished call was reached and settled
ClientSettled == cc.res # Undefined

ErrorFlag == cc.ret.kind = "envelope" /\ cc.ret.isError = Some(TRUE)
NoErrorFlag == cc.ret.kind = "envelope" /\ cc.ret.isError = Undefined

ToolAlwaysReturnsEnvelope == ToolDone => cc.ret.kind = "envelope"

\* ======================================================== ping claims
\* init() once, then interval ticks, pings settling and shutdowns in any order
PollNext ==
    \/ InitOnce
    \/ \E t \in Ids : TimerTick(t)
    \/ AnyPingDone
    \/ AnyShutdown

SpecPoll == Init /\ [][PollNext]_vars

\* C14: when a ping settles, the connected flag of its client and the value
\* the ping returns (the poller stores it in lastConnected) are true exactly
\* when the request completed with a status in 200-299; a response with
\* another status and a transport error both give false, and in every case
\* the ping completes and its caller continues
PingTrueIffSuccess ==
    [][\A s \in 1..MaxPings, out \in PingOutcomes :
          PingDone(s, out) =>
             LET success == out.kind = "response" /\ out.status >= 200 /\ out.status <= 299
             IN  /\ connected'[pings[s].client] = success
                 /\ pings[s].origin = "tick" =>
                       lastConnected'[pings[s].timer] = BoolStr(success)
                 /\ pings'[s].pc = "idle"]_vars

\* a tick's ping succeeded and, after it, another ping is still in flight
PingTrueIffSuccessWitness ==
    /\ client # NULL
    /\ connected[client]
    /\ lastConnected[client] = "true"
    /\ \E s \in 1..MaxPings : pings[s].pc = "fetch" /\ pings[s].origin = "tick"

\* C15: the connected flag of a client changes only in a step in which one
\* of its pings settles: a new client starts with the flag false, and a
\* read, write, append, search or list call leaves every flag as it was,
\* whether the call succeeds or fails
ConnectedChangedOnlyByPing ==
    [][/\ \A c \in Ids :
            connected'[c] # connected[c] =>
               \E s \in 1..MaxPings, out \in PingOutcomes :
                  PingDone(s, out) /\ pings[s].client = c
       /\ nInit' # nInit => ~connected'[client']
       /\ cc' # cc => connected' = connected]_vars

\* a read failed while the flag was true, and the flag is still true
ConnectedChangedOnlyByPingWitness ==
    /\ cc.pc = "done"
    /\ cc.op = "read"
    /\ cc.res # Undefined
    /\ cc.res[1].threw
    /\ connected[cc.target]

\* C16: a finished read, write, append, search or list call has sent exactly
\* one request; when the transport failed or the status was outside 200-299
\* the client method threw and its caller got the failure, not a result; and
\* for a status outside 200-299 the failure message contains the status code
ClientSettledIn(outs) == cc.pc = "done" /\ ClientSettled /\ cc.out[1].kind \in outs

BadStatus == cc.out[1].kind = "response" /\ ~(cc.out[1].status \in 200..299)

CallFailurePropagates ==
    /\ (cc.pc = "done" /\ ClientSettled) => cc.nReq = 1 /\ cc.req # Undefined
    /\ ClientSettledIn({"error"}) \/ (ClientSettledIn({"response"}) /\ BadStatus) =>
          /\ cc.res[1].threw
          /\ cc.ret.text = cc.res[1].message
          /\ IF cc.via = "tool" THEN ErrorFlag ELSE cc.ret.kind = "rejected"
    /\ (ClientSettledIn({"response"}) /\ BadStatus) =>
          StatusStr(cc.out[1].status) \in Range(cc.res[1].message)

\* an extension read answered with status 404 rejected with a message that
\* names the status
CallFailurePropagatesWitness ==
    /\ ClientSettledIn({"response"})
    /\ cc.via = "extension"
    /\ cc.op = "read"
    /\ cc.out[1].status = 404
    /\ cc.ret.kind = "rejected"
    /\ "404" \in Range(cc.ret.text)
    /\ cc.nReq = 1

\* ================================================== configuration claims
\* a provider that keeps using the configuration init() read
HookConfigCached(stored, atInit) == atInit

\* index.ts lines 314 and 370: each hook invocation calls getConfig(), which
\* returns the configuration stored now
HookConfig(stored, atInit) == stored

\* index.ts line 265 (saveConfig) and the host's configuration editor: one
\* field of the stored configuration gets a new value
EditConfig(field, value) ==
    /\ config[field] # value
    /\ config' = [config EXCEPT ![field] = value]
    /\ UNCHANGED <<lifeVars, hostVars, pingVars, taskVars, cc, initConfig, pollLog>>

EditSpace(field) ==
    CASE field = "apiKey" -> {Some("key-1"), Some("key-2")}
      [] field = "port" -> {Undefined, Some(27124)}
      [] field = "vaultPath" -> {Undefined, Some("Notes")}
      [] field = "injectContext" -> {"always", "never"}
      [] field = "maxContextNotes" -> {Undefined, Some(1)}
      [] field = "sessionArchive" -> {JsVal("boolean", "false"), JsVal("boolean", "true")}

\* nothing of the plugin is in the middle of a hook or of a call
Quiet == gc.pc = "idle" /\ sd.pc = "idle" /\ cc.pc = "idle"

\* the plugin runs (no shutdown); the configuration is edited at any moment
\* after init();
\* the context provider is invoked when nothing else is in progress
ConfigNext ==
    \/ InitOnce
    \/ AnyPingDone
    \/ client # NULL /\ \E field \in DOMAIN StoredConfig :
          \E value \in EditSpace(field) : EditConfig(field, value)
    \/ Quiet /\ client # NULL /\ \E content \in {Some(<<"m">>), Some(<<" ">>)} :
          GcInvoke(HookConfig(config, initConfig[client]), content)
    \/ \E results \in {r \in ResultSpace : Len(r) <= 1} : GcSearchDone(results)
    \/ GcSearchFail
    \/ \E outcome \in ReadOutcomes : GcReadDone(1, outcome)
    \/ GcReturn
    \/ gc.pc = "idle" /\ client # NULL /\
          SdInvoke(HookConfig(config, initConfig[client]), "s1",
                   [y |-> "2026", m |-> "11", d |-> "03", t |-> "09:30:00.000"])
    \/ SdWriteDone
    \/ SdWriteFail
    \/ SdReturn
    \/ gc.pc = "idle" /\ \E args \in ArgSpace("read") : ExtInvoke("read", args)
    \/ gc.pc = "idle" /\ \E args \in ArgSpace("list") : ToolInvoke("list", args)
    \/ \E out \in OutcomeSpace(cc.op) : CallSettle(out)
    \/ CallReturn

SpecConfig == Init /\ [][ConfigNext]_vars

HookStarts(before, after) == before.pc = "idle" /\ after.pc # "idle"

\* the hooks use the configuration stored at the moment they are invoked
HooksReadStoredConfig ==
    /\ HookStarts(gc, gc') =>
          gc'.mode = config.injectContext /\ gc'.maxNotes = config.maxContextNotes
    /\ HookStarts(sd, sd') =>
          sd'.archive = config.sessionArchive /\ sd'.vaultPath = config.vaultPath

RequestStarts == cc.pc = "idle" /\ cc'.req # Undefined

\* C17 as stated: every hook invocation and every vault request uses the
\* configuration stored at that moment, whichever field was edited since
\* init(), port and apiKey included
ConfigEditsTakeEffect ==
    [][/\ HooksReadStoredConfig
       /\ RequestStarts =>
             /\ cc'.req[1].base = BaseUrl(config)
             /\ cc'.req[1].auth = Authorization(config)]_vars

\* C17: every hook invocation uses the vaultPath, injectContext,
\* maxContextNotes and sessionArchive stored at that moment; every vault
\* request uses the port and apiKey that were stored when init() built the
\* client, whatever was edited since
ConfigEditsReachHooksOnly ==
    [][/\ HooksReadStoredConfig
       /\ RequestStarts =>
             /\ cc'.req[1].base = BaseUrl(initConfig[cc'.target])
             /\ cc'.req[1].auth = Authorization(initConfig[cc'.target])]_vars

\* after init() the port and the injection mode were edited; the provider
\* then skipped at once, and a later request goes to the port init() read
ConfigEditsWitness ==
    /\ client # NULL
    /\ config.port = Some(27124)
    /\ initConfig[client].port = Undefined
    /\ config.injectContext = "never"
    /\ initConfig[client].injectContext = "always"
    /\ sd.pc = "done" /\ sd.archive = JsVal("boolean", "true")
    /\ initConfig[client].sessionArchive = JsVal("boolean", "false")
    /\ cc.pc = "fetch"
    /\ cc.req[1].base = <<"http://127.0.0.1:", DefaultPort>>

\* ===================================================== search limit claims
\* the finished call is a search whose client call returned well-formed
\* results
SearchReturned(via) ==
    /\ cc.pc = "done" /\ cc.via = via /\ cc.op = "search"
    /\ ClientSettled
    /\ ~cc.res[1].threw
    /\ ~Malformed(cc.res[1].value[1])

\* items are the first Len(items) results, in the server's order
FirstOf(items, results, Same(_, _)) ==
    /\ Len(items) <= Len(results)
    /\ \A i \in 1..Len(items) : Same(items[i], results[i])

ToolItemOf(item, r) ==
    /\ item.path = r.filename
    /\ item.score = r.score
    /\ item.context = (IF r.matches[1] = <<>> THEN "" ELSE r.matches[1][1])

\* C18: for every result sequence the client returns and every limit the
\* caller passes (5 when omitted), the search tool returns at most limit
\* items, they are the first results in the server's order, and each carries
\* the context of its first match, or "" when it has no match
ToolSearchAtMostLimit ==
    SearchReturned("tool") =>
        LET limit == OrElse(Member(cc.args, "limit"), 5)
            items == cc.ret.text[2]
        IN  /\ NoErrorFlag
            /\ Len(items) <= Max(limit, 0)
            /\ FirstOf(items, cc.res[1].value[1], ToolItemOf)

\* ============================================================ list claims
RootFolder(f) == f = Undefined \/ f = Some(<<>>)

ListDone == cc.pc = "done" /\ cc.op = "list" /\ cc.req # Undefined

\* C19: a list call whose folder argument is absent or empty requests the
\* vault root; a successful response without a files field makes the client
\* return the empty sequence, not fail; and the list tool names the empty
\* (root) folder when its folder argument is omitted or empty
ListDefaultsToRoot ==
    ListDone =>
        /\ RootFolder(Member(cc.args, "folder")) =>
              /\ cc.req[1].route = "/vault/" /\ cc.req[1].seg = <<>>
              /\ (cc.via = "tool" /\ NoErrorFlag) => cc.ret.text[2].folder = <<>>
        /\ ~RootFolder(Member(cc.args, "folder")) => cc.req[1].seg # <<>>
        /\ (cc.out[1].kind = "response" /\ cc.out[1].status = 200
              /\ cc.out[1].body = Some([files |-> Undefined])) =>
              /\ ~cc.res[1].threw
              /\ cc.res[1].value = Some(<<>>)
              /\ cc.via = "tool" => NoErrorFlag /\ cc.ret.text[2].files = <<>>

\* the list tool was invoked with no argument object, asked for the root
\* and turned a response without files into an empty listing
ListDefaultsToRootWitness ==
    /\ ListDone
    /\ cc.via = "tool"
    /\ cc.args = Undefined
    /\ cc.req[1].seg = <<>>
    /\ cc.out[1].body = Some([files |-> Undefined])
    /\ NoErrorFlag
    /\ cc.ret.text[2].files = <<>>

\* ======================================================= extension claims
ExtItemOf(item, r) == item = r

\* C20: while the plugin runs, a vault request of a tool action or of an
\* extension method is sent by the client that init() built and the module
\* holds; the extension's search returns at most its limit (10 when
\* omitted) of the client's results, the first ones in the server's order;
\* every other extension method gives its caller exactly what the client
\* method gave: its value, or its failure
ExtensionDelegatesToClient ==
    /\ (cc.req # Undefined /\ cc.modClient # NULL) => cc.target = cc.modClient
    /\ SearchReturned("extension") =>
          LET limit == OrElse(Member(cc.args, "limit"), 10)
              items == cc.ret.text[1]
          IN  /\ cc.ret.kind = "value"
              /\ Len(items) <= Max(limit, 0)
              /\ FirstOf(items, cc.res[1].value[1], ExtItemOf)
    /\ (cc.pc = "done" /\ cc.via = "extension" /\ ClientSettled) =>
          IF cc.res[1].threw
          THEN cc.ret.kind = "rejected" /\ cc.ret.text = cc.res[1].message
          ELSE cc.op # "search" => cc.ret.kind = "value" /\ cc.ret.text = cc.res[1].value

\* ========================================================= read path claim
\* the characters a percent-encoded string stands for, decoded once
RECURSIVE PercentDecode(_)
PercentDecode(s) ==
    IF s = <<>> THEN <<>>
    ELSE IF Head(s) = "%" /\ Len(s) >= 3
    THEN LET code == <<s[2], s[3]>>
             ch == CASE code = <<"2", "F">> -> "/"
                     [] code = <<"2", "0">> -> " "
                     [] code = <<"2", "5">> -> "%"
                     [] OTHER -> "?"
         IN  <<ch>> \o PercentDecode(SubSeq(s, 4, Len(s)))
    ELSE <<Head(s)>> \o PercentDecode(Tail(s))

ReadRequested == cc.op = "read" /\ cc.req # Undefined

\* C21: the request of read(p) addresses /vault/ followed by one segment that
\* is p percent-encoded exactly once: the segment holds no raw separator and
\* no raw space, and decoding it once gives p back, so that a separator in p
\* is encoded and an escape already present in p is encoded again, neither
\* skipped nor decoded
ReadPathEncodedOnce ==
    ReadRequested =>
        LET p == ToStr(Member(cc.args, "path"))
            seg == cc.req[1].seg
        IN  /\ cc.req[1].route = "/vault/"
            /\ cc.req[1].method = "GET"
            /\ \A i \in 1..Len(seg) : seg[i] # "/" /\ seg[i] # " "
            /\ PercentDecode(seg) = p
            /\ cc.nReq = 1

\* read("x%2Fy/z") asked for the segment x%252Fy%2Fz
ReadPathEncodedOnceWitness ==
    /\ ReadRequested
    /\ Member(cc.args, "path") = Some(EncodedPath)
    /\ cc.req[1].seg = <<"x", "%", "2", "5", "2", "F", "y", "%", "2", "F", "z">>

\* ========================================================== poller claims
\* the latest state-change event of a poller (not its startup line)
PollerEvent(pl) == <<pl.last, pl.n>>

\* C22: a tick logs a state-change event only when the outcome of its ping
\* differs from the outcome the previous completed tick left in
\* lastConnected; a tick with the same outcome logs nothing; an event
\* reports the outcome of the tick that logs it and never the state the
\* poller's previous event reported, also while ticks overlap; and nothing
\* but a completing tick adds a poller event
PollerLogsOnlyChanges ==
    [][/\ \A s \in 1..MaxPings, out \in PingOutcomes :
            (PingDone(s, out) /\ pings[s].origin = "tick") =>
               LET t == pings[s].timer
                   now == BoolStr(out.kind = "response" /\ out.status \in 200..299)
               IN  /\ now = lastConnected[t] => PollerEvent(pollLog'[t]) = PollerEvent(pollLog[t])
                   /\ PollerEvent(pollLog'[t]) # PollerEvent(pollLog[t]) =>
                         /\ pollLog'[t].last = now
                         /\ now # lastConnected[t]
                         /\ pollLog'[t].last # pollLog[t].last
                   /\ (now # lastConnected[t] /\ ctx # NULL) =>
                         PollerEvent(pollLog'[t]) # PollerEvent(pollLog[t])
       /\ (\E t \in Ids : PollerEvent(pollLog'[t]) # PollerEvent(pollLog[t])) =>
             \E s \in 1..MaxPings, out \in PingOutcomes :
                PingDone(s, out) /\ pings[s].origin = "tick"]_vars

\* the poller has logged "connected" and then "disconnected", and two
\* ticks are in flight at once
PollerLogsOnlyChangesWitness ==
    /\ pollLog[1].last = "false" /\ pollLog[1].n = 0
    /\ lastConnected[1] = "false"
    /\ \A s \in 1..2 : pings[s].pc = "fetch" /\ pings[s].origin = "tick"

\* ===================================================== in-flight work
\* shutdown() has run to its end: client and ctx are released
Released == nShutdown > 0 /\ client = NULL /\ ctx = NULL

\* C23: once shutdown has completed, a hook invocation or poll tick that was
\* in flight settles without raising an error to the host and its result is
\* discarded: the memory:search handler appends nothing to the event's
\* result collection, the context provider returns no context block, and
\* no step emits a log
InFlightResultsDiscarded ==
    [][Released =>
         /\ (ms.pc = "search" /\ ms'.pc = "done") =>
                ms'.ret = "ok" /\ ms'.payload = ms.payload
         /\ (gc.pc \in {"search", "reads"} /\ gc'.pc = "done") =>
                gc'.ret = "null" /\ gc'.warns = gc.warns
         /\ (sd.pc = "write" /\ sd'.pc = "done") =>
                sd'.ret = "ok" /\ sd'.warns = sd.warns /\ sd'.infos = sd.infos
         /\ pollLog' = pollLog]_vars

\* C24: with the startup check and tick pings overlapping in any order, a
\* client's connected flag is written only by its pings: each ping that
\* completes leaves the flag equal to its own outcome, whatever the flag
\* held and whichever ping was started first, and between completions the
\* flag keeps that value; so once every ping has completed the flag is the
\* outcome of the ping that completed last
ConnectedLastWriterWins ==
    [][\A c \in Ids :
          LET done == {<<s, out>> \in (1..MaxPings) \X PingOutcomes :
                          PingDone(s, out) /\ pings[s].client = c}
          IN  /\ \A d \in done :
                    connected'[c] = (d[2].kind = "response" /\ d[2].status \in 200..299)
              /\ (done = {} /\ nInit' = nInit) => connected'[c] = connected[c]]_vars

\* every ping has completed; the poller's only tick found the vault
\* unreachable, and the startup check, started before it, completed after
\* it with success: the flag is true
ConnectedLastWriterWinsWitness ==
    /\ \A s \in 1..MaxPings : pings[s].pc = "idle"
    /\ client = 1
    /\ lastConnected[1] = "false"
    /\ pollLog[1].last = "false" /\ pollLog[1].n = 1
    /\ connected[1]

\* ===================================================== shutdown order
\* the place of a step in the order shutdown() is said to follow
StepRank(st) ==
    IF st.op = "clearInterval" THEN 1
    ELSE IF st.op = "cleanup" THEN 2
    ELSE IF st.op = "cleanups.length=0" THEN 3
    ELSE IF st.op = UnregOrder[1] THEN 4
    ELSE IF st.op = UnregOrder[2] THEN 5
    ELSE IF st.op = UnregOrder[3] THEN 6
    ELSE IF st.op = "client=null" THEN 7
    ELSE 8

\* the steps of the latest shutdown() were taken in the stated order
ShutdownStepsInOrder ==
    \A i, j \in 1..Len(shutdownTrace) :
        i < j => /\ StepRank(shutdownTrace[i]) <= StepRank(shutdownTrace[j])
                 /\ StepRank(shutdownTrace[i]) = StepRank(shutdownTrace[j])
                       => shutdownTrace[i].op = "cleanup"

\* C25: shutdown stops the poller, invokes the cleanups, clears the
\* registry, unregisters config schema, context provider and capability
\* export in that order, and only then releases the client; and whenever
\* the client reference has been released, no poll timer is still scheduled
\* and no subscription is still registered
ShutdownOrderReleasesLast ==
    /\ ShutdownStepsInOrder
    /\ (nShutdown >= 1 /\ client = NULL) => activeTimers = {} /\ subs = {}

\* ====================================================== startup check
\* the pings of client c that init() started itself and that are in flight
StartupPings(ps, c) ==
    {s \in DOMAIN ps : ps[s].pc = "fetch" /\ ps[s].origin = "init" /\ ps[s].client = c}

\* C26: init() starts exactly one ping of its own, not a tick of the poll,
\* and returns with every hook registered while that ping is still in
\* flight; however the ping ends, it logs at most one line and leaves what
\* init() set up, and the poller's record of the last state, untouched
StartupPingDoesNotBlockInit ==
    [][/\ nInit' # nInit =>
            /\ Cardinality(StartupPings(pings', client')) = 1
            /\ \A s \in 1..MaxPings :
                  pings'[s] # pings[s] => s \in StartupPings(pings', client')
            /\ ctx' # NULL /\ client' # NULL /\ healthTimer' # NULL
            /\ reg'.schema /\ reg'.provider /\ reg'.extension
            /\ Range(PushedByInit(client')) \subseteq subs'
            /\ pollLog'[client'].startup = 0
       /\ \A s \in 1..MaxPings, out \in PingOutcomes :
            (PingDone(s, out) /\ pings[s].origin = "init") =>
               LET c == pings[s].client
               IN  /\ pollLog'[c].startup \in {pollLog[c].startup, pollLog[c].startup + 1}
                   /\ pollLog'[c].startup <= 1
                   /\ ctx # NULL => pollLog'[c].startup = 1
                   /\ lifeVars' = lifeVars /\ hostVars' = hostVars
                   /\ lastConnected' = lastConnected
                   /\ pollLog'[c].last = pollLog[c].last /\ pollLog'[c].n = pollLog[c].n
       /\ \A c \in Ids :
            pollLog'[c].startup # pollLog[c].startup =>
               \E s \in 1..MaxPings, out \in PingOutcomes :
                  PingDone(s, out) /\ pings[s].origin = "init" /\ pings[s].client = c]_vars

\* the startup check failed after a tick of the poll had already completed:
\* the plugin is running, one line was logged, the hooks are registered
StartupPingDoesNotBlockInitWitness ==
    /\ nInit = 1 /\ nShutdown = 0
    /\ StartupPings(pings, 1) = {}
    /\ pollLog[1].startup = 1
    /\ ~connected[1]
    /\ lastConnected[1] = "true"
    /\ reg.provider /\ subs # {}

\* ======================================================= skipping hooks
\* the three hooks together; the host delivers one invocation at a time
HooksIdle == gc.pc = "idle" /\ ms.pc = "idle" /\ sd.pc = "idle"

HooksNext ==
    \/ InitOnce
    \/ AnyShutdown
    \/ AnyPingDone
    \/ HooksIdle /\ \E cfg \in CtxConfigSpace, content \in ContentSpace : GcInvoke(cfg, content)
    \/ \E results \in ResultSpace : GcSearchDone(results)
    \/ GcSearchFail
    \/ \E i \in 1..MaxResults, outcome \in ReadOutcomes : GcReadDone(i, outcome)
    \/ GcReturn
    \/ HooksIdle /\ \E results \in PayloadSpace : MsInvoke("q", results)
    \/ \E hits \in HitSpace : MsSearchDone(hits)
    \/ MsSearchFail
    \/ MsReturn
    \/ HooksIdle /\ \E cfg \in SdConfigSpace, session \in SessionSpace, now \in ClockSpace :
          SdInvoke(cfg, session, now)
    \/ SdWriteDone
    \/ SdWriteFail
    \/ SdReturn

SpecHooks == Init /\ [][HooksNext]_vars

\* the client is missing or its connected flag is false
Disconnected == ~(client # NULL /\ connected[client])

\* C27: a hook that skips issues no vault request: the context provider
\* sends no search and no read when the mode is not "always", the client is
\* disconnected or the message is blank; the memory:search handler sends no
\* search when disconnected; the session:destroy handler sends no write
\* when archiving is off or the client is disconnected.  A hook that has
\* skipped is finished, so it sends nothing later either.
SkippingHookIssuesNoRequest ==
    [][/\ (gc.pc = "idle" /\ gc'.pc # "idle"
              /\ (gc'.mode # "always" \/ Disconnected \/ Blank(gc'.content)))
          => gc'.pc = "done" /\ gc'.nSearch = 0 /\ gc'.reads = <<>>
       /\ (ms.pc = "idle" /\ ms'.pc # "idle" /\ Disconnected)
          => ms'.pc = "done" /\ ms'.nSearch = 0 /\ ms'.req = Undefined
       /\ (sd.pc = "idle" /\ sd'.pc # "idle"
              /\ (~ArchiveTrue(sd'.archive) \/ Disconnected))
          => sd'.pc = "done" /\ sd'.writes = <<>>]_vars

\* the memory:search handler has skipped after the vault became unreachable
SkippingHookWitness ==
    /\ client # NULL /\ ~connected[client]
    /\ pollLog[client].startup = 1
    /\ ms.pc = "done" /\ ms.nSearch = 0
    /\ ms.before # Undefined

\* ==================================================== leaked resources
\* C28: for any sequence of init() and shutdown() calls at most one poll
\* timer is scheduled at any time, and after a shutdown() that ran to its
\* end no poll timer the plugin created is scheduled and no subscription
\* the plugin made is registered
NoTimerOrSubscriptionLeft ==
    /\ Cardinality(activeTimers) <= 1
    /\ (nShutdown >= 1 /\ ~shutdownThrew) => activeTimers = {} /\ subs = {}

\* ================================================= calls after shutdown
\* A caller that obtained the provider, a handler or the extension object
\* while the plugin ran may call it later, registered or not: the closures
\* of index.ts lines 313-400 stay callable after shutdown().
HeldProviderCall(cfg, content) ==
    /\ nInit > 0
    /\ HooksIdle /\ cc.pc = "idle"
    /\ gc' = GcStart(ctx, client, client # NULL /\ connected[client], cfg, content)
    /\ UNCHANGED <<lifeVars, hostVars, pingVars, ms, sd, callVars, pollLog>>

HeldSearchHandlerCall(query, results) ==
    /\ nInit > 0
    /\ HooksIdle /\ cc.pc = "idle"
    /\ ms' = MsStart(client, client # NULL /\ connected[client], query, results)
    /\ UNCHANGED <<lifeVars, hostVars, pingVars, gc, sd, callVars, pollLog>>

HeldSessionHandlerCall(cfg, session, now) ==
    /\ nInit > 0
    /\ HooksIdle /\ cc.pc = "idle"
    /\ sd' = SdStart(ctx, client, client # NULL /\ connected[client], cfg, session, now)
    /\ UNCHANGED <<lifeVars, hostVars, pingVars, gc, ms, callVars, pollLog>>

HeldExtensionCall(op, args) ==
    /\ nInit > 0
    /\ HooksIdle /\ cc.pc = "idle"
    /\ cc' = ExtStart(client, client # NULL /\ connected[client],
                      IF client # NULL THEN initConfig[client] ELSE StoredConfig,
                      op, args)
    /\ UNCHANGED <<lifeVars, hostVars, pingVars, taskVars, config, initConfig, pollLog>>

HeldNext ==
    \/ InitOnce
    \/ AnyShutdown
    \/ AnyPingDone
    \/ \E cfg \in CtxConfigSpace, content \in ContentSpace : HeldProviderCall(cfg, content)
    \/ \E results \in ResultSpace : GcSearchDone(results)
    \/ GcSearchFail
    \/ \E i \in 1..MaxResults, outcome \in ReadOutcomes : GcReadDone(i, outcome)
    \/ GcReturn
    \/ \E results \in PayloadSpace : HeldSearchHandlerCall("q", results)
    \/ \E hits \in HitSpace : MsSearchDone(hits)
    \/ MsSearchFail
    \/ MsReturn
    \/ \E cfg \in SdConfigSpace, session \in SessionSpace, now \in ClockSpace :
          HeldSessionHandlerCall(cfg, session, now)
    \/ SdWriteDone
    \/ SdWriteFail
    \/ SdReturn
    \/ \E op \in ToolOps \cup {"isConnected"} : \E args \in ArgSpace(op) :
          HeldExtensionCall(op, args)
    \/ \E out \in OutcomeSpace(cc.op) : CallSettle(out)
    \/ CallReturn

SpecHeld == Init /\ [][HeldNext]_vars

\* C29: once shutdown has run to its end, a new call of the context
\* provider, of the memory:search or session:destroy handler, or of a
\* method of the capability export sends no vault request, and the export's
\* isConnected() returns false
NoRequestAfterShutdown ==
    [][Released =>
         /\ (gc.pc = "idle" /\ gc'.pc # "idle")
               => gc'.pc = "done" /\ gc'.nSearch = 0 /\ gc'.reads = <<>>
         /\ (ms.pc = "idle" /\ ms'.pc # "idle")
               => ms'.pc = "done" /\ ms'.nSearch = 0 /\ ms'.req = Undefined
         /\ (sd.pc = "idle" /\ sd'.pc # "idle")
               => sd'.pc = "done" /\ sd'.writes = <<>>
         /\ (cc.pc = "idle" /\ cc'.pc # "idle")
               => /\ cc'.pc = "done" /\ cc'.nReq = 0 /\ cc'.req = Undefined
                  /\ cc'.op = "isConnected" => cc'.ret = Value(Some(FALSE))]_vars

\* after shutdown the export's isConnected() returned false although the
\* flag of the client that was released is still true
NoRequestAfterShutdownWitness ==
    /\ Released
    /\ connected[1]
    /\ cc.pc = "done" /\ cc.via = "extension" /\ cc.op = "isConnected"
    /\ cc.ret = Value(Some(FALSE))

====
